---- MODULE Spec2Model ----
(***************************************************************************)
(* Model of the flexo scheduling core (flexo/src/lib.rs): the Order Index, *)
(* JobContext::try_schedule / schedule, the worker closure and the Attempt *)
(* Loop Order::try_until_success with select_provider, punish, reward and  *)
(* pardon.  The scheduler is one thread (try_schedule takes &mut self);    *)
(* every spawned worker is a thread whose steps are the critical sections  *)
(* of the shared mutexes.                                                  *)
(***************************************************************************)
EXTENDS Integers, Sequences, FiniteSets, TLC

\* ------------------------------------------------------------------ bounds
MaxWorkers == 2        \* worker threads spawned in one behaviour
MaxSize == 2           \* largest size a Job reports / the cache scan finds
MaxResume == 3         \* largest resume_from a caller passes
MaxFailures == 1       \* largest |failures[p]| left behind by earlier orders
MaxUsages == 1         \* largest usages[p] left behind by earlier orders

\* ------------------------------------------------------- program constants
NUM_MAX_ATTEMPTS == 100

\* --------------------------------------------------------- collaborators
None == -1                       \* Option::None of an Option<u64>
NoProvider == "none"             \* Option::None of custom_provider()

GlobalProviders == <<"A", "B">>  \* initial_providers handed to JobContext::new
AllProviders == {"A", "B", "C"}

\* two mirrors may have the same static score
initial_score(p) == CASE p = "A" -> 0 [] p = "B" -> 1 [] OTHER -> 1

Orders == {"X", "Y", "U", "V"}

is_cacheable(order) == order \in {"X", "Y"}

custom_provider(order) == IF order \in {"Y", "V"} THEN "C" ELSE NoProvider

\* ------------------------------------------------------------ Order Index
Absent == [tag |-> "Absent", complete_size |-> None, cached_size |-> 0]

InProgress == [tag |-> "InProgress", complete_size |-> None, cached_size |-> 0]

Cached(complete_size, cached_size) ==
    [tag |-> "Cached", complete_size |-> complete_size, cached_size |-> cached_size]

\* what Job::initialize_cache may report for one order: nothing, a partial
\* file of unknown or known total size, or a complete file
InitialEntries ==
    {Absent, Cached(None, 1), Cached(MaxSize, 1), Cached(MaxSize, MaxSize)}

ResumeFroms == {None} \cup (0 .. MaxResume)

\* ------------------------------------------------------------- JobResult
NoChannel == [id |-> <<0, 0>>, job_resources |-> FALSE]

NoResult == [kind |-> "None", size |-> 0]

\* the size a finished download reports
CompleteSizes == {MaxSize}

JobResults ==
    {[kind |-> "Complete", size |-> s] : s \in CompleteSizes}
    \cup {[kind |-> k, size |-> 0] :
            k \in {"Partial", "Error", "Unavailable", "ClientError",
                   "UnexpectedInternalError"}}

\* Job::handle_error converts the error of the channel into a JobResult that
\* reports the failure, one of each way the loop treats a failure: punished
\* and retried (Error), retried (Unavailable), ended at once (ClientError);
\* a channel inside that result is one the Job made itself and is dropped
\* with the result
HandleErrorResults ==
    {r \in JobResults : r.kind \in {"Error", "Unavailable", "ClientError"}}

is_success(result) == result.kind = "Complete"

\* ------------------------------------------------------------ FlexoMessage
ProviderSelected(p) == <<"ProviderSelected", p>>

ChannelEstablished(channel_establishment) ==
    <<"ChannelEstablished", channel_establishment>>

OrderError == <<"OrderError", "">>

\* the value of FlexoProgress the Attempt Loop itself sends
FlexoProgressOrderError == <<"FlexoProgress", "OrderError">>

\* mutant: the message is lost
send_nothing(tx, message) == tx

\* mutant: the message is sent twice
send_twice(tx, message) == Append(Append(tx, message), message)

\* tx.send(message) on the unbounded stream of one worker
send(tx, message) == Append(tx, message)

\* mutant: every establishment is reported as new
establishment_new(channel) == "NewChannel"

\* the tag get_channel returns: the arm of the match on channels.remove
establishment(channel) ==
    IF channel = NoChannel THEN "NewChannel" ELSE "ExistingChannel"

\* mutant: the job resources stay attached
keep_job_resources(channel) == channel

\* JobState::release_job_resources
release_job_resources(channel) == [channel EXCEPT !.job_resources = FALSE]

\* --------------------------------------------------------------- failures
Get(map, p) == IF p \in DOMAIN map THEN map[p] ELSE 0

EmptyMap == [p \in {} |-> 0]

punish(failures, p) ==
    [q \in DOMAIN failures \cup {p} |->
        IF q = p THEN Get(failures, p) + 1 ELSE failures[q]]

\* mutant: the reward counts as a failure
reward_as_punish(failures, p) == punish(failures, p)

reward(failures, p) ==
    [q \in DOMAIN failures \cup {p} |->
        IF q = p THEN Get(failures, p) - 1 ELSE failures[q]]

\* mutant: nobody is pardoned
pardon_nobody(punished_providers, failures) == failures

\* mutant: an entry that is 0 is left alone
RECURSIVE pardon_nonzero(_, _)
pardon_nonzero(punished_providers, failures) ==
    IF punished_providers = <<>> THEN failures
    ELSE LET not_guilty == Head(punished_providers)
             next == IF not_guilty \in DOMAIN failures /\ failures[not_guilty] # 0
                     THEN [failures EXCEPT ![not_guilty] = @ - 1]
                     ELSE failures
         IN  pardon_nonzero(Tail(punished_providers), next)

RECURSIVE pardon(_, _)
pardon(punished_providers, failures) ==
    IF punished_providers = <<>> THEN failures
    ELSE LET not_guilty == Head(punished_providers)
             next == IF not_guilty \in DOMAIN failures
                     THEN [failures EXCEPT ![not_guilty] = @ - 1]
                     ELSE failures
         IN  pardon(Tail(punished_providers), next)

\* ----------------------------------------------------------- DynamicScore
DynamicScore(p, failures, usages) ==
    <<Get(failures, p), Get(usages, p), initial_score(p)>>

\* mutant: the usages are compared before the failures
ScoreLess_usages_first(a, b) ==
    \/ a[2] < b[2]
    \/ a[2] = b[2] /\ a[1] < b[1]
    \/ a[2] = b[2] /\ a[1] = b[1] /\ a[3] < b[3]

\* derived Ord of the struct: the fields compared in declaration order
ScoreLess(a, b) ==
    \/ a[1] < b[1]
    \/ a[1] = b[1] /\ a[2] < b[2]
    \/ a[1] = b[1] /\ a[2] = b[2] /\ a[3] < b[3]

\* mutant: the head of the working copy is taken
select_provider_first(list, failures, usages) == 1

\* index of the first element of minimal score (Iterator::min_by_key)
select_provider(list, failures, usages) ==
    CHOOSE idx \in 1 .. Len(list) :
        /\ \A j \in 1 .. (idx - 1) :
              ScoreLess(DynamicScore(list[idx], failures, usages),
                        DynamicScore(list[j], failures, usages))
        /\ \A j \in (idx + 1) .. Len(list) :
              ~ScoreLess(DynamicScore(list[j], failures, usages),
                         DynamicScore(list[idx], failures, usages))

RemoveAt(list, idx) ==
    [i \in 1 .. (Len(list) - 1) |-> IF i < idx THEN list[i] ELSE list[i + 1]]

\* mutant: a custom provider does not make the attempt the last one
is_last_provider_list(custom, remaining) == remaining = <<>>

\* mutant: every attempt is the last one
is_last_provider_always(custom, remaining) == TRUE

\* second component of the pair bound at the top of the loop: true for a
\* custom provider, else whether the working copy is empty after the removal
is_last_provider(custom, remaining) ==
    IF custom = NoProvider THEN remaining = <<>> ELSE TRUE

\* ------------------------------------------------------------------ state
VARIABLES
    providers,          \* JobContext.providers
    channels,           \* JobContext.channels: provider -> idle channel
    order_states,       \* JobContext.order_states (Absent = no key)
    providers_in_use,   \* JobContext.providers_in_use
    provider_failures,  \* JobContext.provider_failures
    panic_monitor,      \* JobContext.panic_monitor: tokens, named by worker
    workers,            \* the threads spawned by schedule, in spawn order
    scheduler_panicked, \* schedule() hit a poisoned token: the caller unwound
    scheduler           \* position of the thread that calls try_schedule

vars == <<providers, channels, order_states, providers_in_use,
          provider_failures, panic_monitor, workers, scheduler_panicked,
          scheduler>>

ZeroDelta == [p \in AllProviders |-> 0]

NoOutcome == [kind |-> "None", provider |-> NoProvider, failures |-> EmptyMap]

Alive(w) == workers[w].pc \notin {"done", "panicked"}

\* the way Mutex::try_lock sees the liveness token of worker w
token(w) ==
    CASE workers[w].pc = "panicked" -> "Poisoned"
      [] workers[w].pc \in {"start", "done"} -> "Ok"
      [] OTHER -> "WouldBlock"

\* the caller of try_schedule is outside any call
Idle == [pc |-> "idle", order |-> ""]

Init ==
    /\ providers = GlobalProviders
    /\ channels = EmptyMap
    /\ order_states \in
          {[o \in Orders |-> IF o = "X" THEN x ELSE IF o = "U" THEN u ELSE Absent] :
              x \in InitialEntries, u \in {Cached(MaxSize, MaxSize)}}
    /\ providers_in_use = EmptyMap
    /\ provider_failures = EmptyMap
    /\ panic_monitor = <<>>
    /\ workers = <<>>
    /\ scheduler_panicked = FALSE
    /\ scheduler = Idle

\* ------------------------------------------------------------------ locks
NoLock == "none"

\* mutant: the guard of the Channel Pool lives until the end of the attempt
locks_held_until_served(w) ==
    CASE workers[w].pc = "select_failures" -> <<"failures">>
      [] workers[w].pc \in {"establish", "serve", "handle_error"} -> <<"channels">>
      [] workers[w].pc = "insert" -> <<"channels">>
      [] OTHER -> <<>>

\* mutant: the Complete arm locks the Order Index before the Channel Pool
\* and keeps that guard
locks_held_index_first(w) ==
    CASE workers[w].pc = "select_failures" -> <<"failures">>
      [] workers[w].pc = "establish" -> <<"channels">>
      [] workers[w].pc = "finish" /\ workers[w].result.kind = "Complete"
            -> <<"order_states">>
      [] workers[w].pc = "insert" -> <<"channels">>
      [] OTHER -> <<>>

\* mutant: a worker that has ended keeps the guard of the failures map
locks_held_leaked(w) ==
    CASE workers[w].pc = "select_failures" -> <<"failures">>
      [] workers[w].pc = "establish" -> <<"channels">>
      [] workers[w].pc = "insert" -> <<"channels">>
      [] workers[w].pc = "done" -> <<"failures">>
      [] OTHER -> <<>>

\* the shared locks worker w holds between two of its steps, in the order it
\* took them: inside select_provider the guard of the failures map while it
\* locks the usages map, inside get_channel the guard of the Channel Pool
\* until new_channel / reuse_channel has returned, in the Complete arm the
\* guard of the Channel Pool while it locks the Order Index
locks_held(w) ==
    CASE workers[w].pc = "select_failures" -> <<"failures">>
      [] workers[w].pc = "establish" -> <<"channels">>
      [] workers[w].pc = "insert" -> <<"channels">>
      [] OTHER -> <<>>

\* the shared locks the caller of try_schedule holds between two of its
\* steps: the guard of the Order Index while best_provider runs inside the
\* match
scheduler_locks ==
    IF scheduler.pc = "best_provider" THEN <<"order_states">> ELSE <<>>

\* some thread holds the lock
locked(lock) ==
    \/ \E i \in 1 .. Len(scheduler_locks) : scheduler_locks[i] = lock
    \/ \E w \in 1 .. Len(workers) :
          \E i \in 1 .. Len(locks_held(w)) : locks_held(w)[i] = lock

\* the Channel Pool lock is held by some worker
channels_locked == locked("channels")

\* the shared lock the next step of worker w takes (every step takes at most
\* one), kind being the kind of the JobResult the step deals with
step_lock(w, kind) ==
    LET self == workers[w]
    IN  CASE self.pc = "select" ->
                IF custom_provider(self.order) = NoProvider THEN "failures" ELSE NoLock
          [] self.pc = "select_failures" -> "usages"
          [] self.pc = "usage" -> "usages"
          [] self.pc = "channel" -> "channels"
          [] self.pc \in {"serve", "handle_error"} ->
                IF kind \in {"Complete", "Partial", "Error"} THEN "failures" ELSE NoLock
          [] self.pc = "pardon" -> "failures"
          [] self.pc = "remove" -> "order_states"
          [] self.pc = "finish" -> IF kind = "Complete" THEN "channels" ELSE "failures"
          [] self.pc = "insert" -> "order_states"
          [] OTHER -> NoLock

\* Mutex::lock returns: the lock the step needs is free
can_lock(w, kind) ==
    step_lock(w, kind) = NoLock \/ ~locked(step_lock(w, kind))

\* ---------------------------------------------------------------- scheduler
\* mutant: the custom provider of the order is ignored
best_provider_first(order) == providers[1]

best_provider(order) ==
    IF custom_provider(order) = NoProvider THEN providers[1]
    ELSE custom_provider(order)

\* mutant: the resume guard of the Cached arm is off by one
match_order_state_le(entry, resume_from) ==
    CASE entry.tag = "Absent" /\ resume_from > 0 ->
            [kind |-> "Uncacheable", cached_size |-> 0]
      [] entry.tag = "Absent" /\ ~(resume_from > 0) ->
            [kind |-> "Proceed", cached_size |-> 0]
      [] entry.tag = "Cached" /\ entry.cached_size <= resume_from ->
            [kind |-> "Uncacheable", cached_size |-> 0]
      [] entry.tag = "Cached" /\ ~(entry.cached_size <= resume_from)
           /\ entry.complete_size # None /\ entry.complete_size = entry.cached_size ->
            [kind |-> "Cached", cached_size |-> 0]
      [] entry.tag = "Cached" /\ ~(entry.cached_size <= resume_from)
           /\ ~(entry.complete_size # None /\ entry.complete_size = entry.cached_size) ->
            [kind |-> "Proceed", cached_size |-> entry.cached_size]
      [] entry.tag = "InProgress" ->
            [kind |-> "AlreadyInProgress", cached_size |-> 0]

\* the match on order_states.get(&order) in try_schedule, arms in source order
match_order_state(entry, resume_from) ==
    CASE entry.tag = "Absent" /\ resume_from > 0 ->
            [kind |-> "Uncacheable", cached_size |-> 0]
      [] entry.tag = "Absent" /\ ~(resume_from > 0) ->
            [kind |-> "Proceed", cached_size |-> 0]
      [] entry.tag = "Cached" /\ entry.cached_size < resume_from ->
            [kind |-> "Uncacheable", cached_size |-> 0]
      [] entry.tag = "Cached" /\ ~(entry.cached_size < resume_from)
           /\ entry.complete_size # None /\ entry.complete_size = entry.cached_size ->
            [kind |-> "Cached", cached_size |-> 0]
      [] entry.tag = "Cached" /\ ~(entry.cached_size < resume_from)
           /\ ~(entry.complete_size # None /\ entry.complete_size = entry.cached_size) ->
            [kind |-> "Proceed", cached_size |-> entry.cached_size]
      [] entry.tag = "InProgress" ->
            [kind |-> "AlreadyInProgress", cached_size |-> 0]

\* the closure's captured state at thread::spawn
NewWorker(order, cached_size) ==
    [order |-> order, cached_size |-> cached_size, providers |-> providers,
     num_attempt |-> 0, punished_providers |-> <<>>, provider |-> NoProvider,
     last_chance |-> FALSE, channel |-> NoChannel, result |-> NoResult,
     job_outcome |-> NoOutcome, pc |-> "start",
     delta |-> ZeroDelta, attempts |-> <<>>, pardon_entry |-> EmptyMap,
     messages |-> <<>>, progress |-> <<>>]

Poisoned == \E i \in 1 .. Len(panic_monitor) : token(panic_monitor[i]) = "Poisoned"

StillRunning(w) == token(w) = "WouldBlock"

\* JobContext::schedule: sweep the tokens (a poisoned one is fatal), push the
\* new token, spawn the worker
schedule(order, cached_size) ==
    IF Poisoned
    THEN /\ panic_monitor' = <<>>
         /\ scheduler_panicked' = TRUE
         /\ UNCHANGED workers
    ELSE /\ panic_monitor' =
               Append(SelectSeq(panic_monitor, StillRunning), Len(workers) + 1)
         /\ workers' = Append(workers, NewWorker(order, cached_size))
         /\ UNCHANGED scheduler_panicked

\* what the call try_schedule(order, resume_from) gives its caller in the
\* current state: a ScheduleOutcome, or the panic of schedule()
ScheduleOutcome(order, resume_from) ==
    IF ~is_cacheable(order)
    THEN [kind |-> "Uncacheable", provider |-> best_provider(order), cached_size |-> 0]
    ELSE LET rf == IF resume_from = None THEN 0 ELSE resume_from
             m == match_order_state(order_states[order], rf)
         IN  CASE m.kind = "Uncacheable" ->
                     [kind |-> "Uncacheable", provider |-> best_provider(order),
                      cached_size |-> 0]
               [] m.kind \in {"Cached", "AlreadyInProgress"} ->
                     [kind |-> m.kind, provider |-> NoProvider, cached_size |-> 0]
               [] m.kind = "Proceed" ->
                     [kind |-> IF Poisoned THEN "Panic" ELSE "Scheduled",
                      provider |-> NoProvider, cached_size |-> m.cached_size]

\* JobContext::try_schedule; an outcome other than Scheduled changes nothing
\* in the JobContext.  For a cacheable order the call locks the Order Index;
\* an Uncacheable arm of the match calls best_provider under that guard (the
\* call is then completed by ReturnUncacheable); the other arms drop the
\* guard before they return or before schedule() runs.
try_schedule(order, resume_from) ==
    LET outcome == ScheduleOutcome(order, resume_from)
    IN  /\ ~scheduler_panicked
        /\ scheduler = Idle
        /\ is_cacheable(order) => ~locked("order_states")
        /\ IF outcome.kind \in {"Uncacheable", "Cached", "AlreadyInProgress"}
           THEN /\ scheduler' =
                      IF is_cacheable(order) /\ outcome.kind = "Uncacheable"
                      THEN [pc |-> "best_provider", order |-> order]
                      ELSE scheduler
                /\ UNCHANGED <<order_states, panic_monitor, workers,
                               scheduler_panicked>>
           ELSE /\ Poisoned \/ Len(workers) < MaxWorkers
                /\ order_states' = [order_states EXCEPT ![order] = InProgress]
                /\ schedule(order, outcome.cached_size)
                /\ UNCHANGED scheduler
        /\ UNCHANGED <<providers, channels, providers_in_use, provider_failures>>

TrySchedule == \E order \in Orders, resume_from \in ResumeFroms :
                  try_schedule(order, resume_from)

\* the lock best_provider takes for the order: the provider list, unless the
\* order has a custom provider
best_provider_lock(order) ==
    IF custom_provider(order) = NoProvider THEN "providers" ELSE NoLock

\* best_provider returns inside an Uncacheable arm of the match: the
\* provider list was locked and read under the guard of the Order Index,
\* both guards are dropped and try_schedule returns Uncacheable
ReturnUncacheable ==
    /\ scheduler.pc = "best_provider"
    /\ best_provider_lock(scheduler.order) = NoLock
          \/ ~locked(best_provider_lock(scheduler.order))
    /\ scheduler' = Idle
    /\ UNCHANGED <<providers, channels, order_states, providers_in_use,
                   provider_failures, panic_monitor, workers, scheduler_panicked>>

\* ------------------------------------------------------------------ worker
\* what this worker itself has added to the failures map so far
Applied(w, failures_after) ==
    [p \in AllProviders |->
        workers[w].delta[p] + Get(failures_after, p) - Get(provider_failures, p)]

\* thread start: the closure takes its liveness token (mutex_cloned.lock())
WorkerStart(w) ==
    /\ workers[w].pc = "start"
    /\ workers' = [workers EXCEPT ![w].pc = "select"]
    /\ UNCHANGED <<providers, channels, order_states, providers_in_use,
                   provider_failures, panic_monitor, scheduler_panicked,
                   scheduler>>

\* mutant: the number of attempts is not limited
last_chance_unlimited(num_attempt, is_last) == is_last

\* let last_chance = num_attempt >= NUM_MAX_ATTEMPTS || is_last_provider
last_chance(num_attempt, is_last) ==
    num_attempt >= NUM_MAX_ATTEMPTS \/ is_last

\* top of the loop for an order without custom provider: count the attempt,
\* enter select_provider and lock the failures map
EnterSelect(w) ==
    LET self == workers[w]
    IN  /\ self.pc = "select"
        /\ custom_provider(self.order) = NoProvider
        /\ can_lock(w, "")
        /\ workers' = [workers EXCEPT ![w].num_attempt = @ + 1,
                                      ![w].pc = "select_failures"]
        /\ UNCHANGED <<providers, channels, order_states, providers_in_use,
                       provider_failures, panic_monitor, scheduler_panicked,
                       scheduler>>

\* the provider of the attempt: the custom provider (which also counts the
\* attempt), or, with the usages map locked too, the best provider of the
\* working copy, removed from it; both guards are dropped, last_chance is
\* computed and ProviderSelected is sent
SelectProvider(w) ==
    LET self == workers[w]
        custom == custom_provider(self.order)
        idx == select_provider(self.providers, provider_failures, providers_in_use)
        remaining == IF custom = NoProvider THEN RemoveAt(self.providers, idx)
                     ELSE self.providers
        provider == IF custom = NoProvider THEN self.providers[idx] ELSE custom
        attempt == IF custom = NoProvider THEN self.num_attempt
                   ELSE self.num_attempt + 1
    IN  /\ self.pc = IF custom = NoProvider THEN "select_failures" ELSE "select"
        /\ can_lock(w, "")
        /\ IF custom = NoProvider /\ self.providers = <<>>
           THEN workers' = [workers EXCEPT ![w].pc = "panicked"]
           ELSE workers' = [workers EXCEPT
                   ![w].num_attempt = attempt,
                   ![w].provider = provider,
                   ![w].providers = remaining,
                   ![w].last_chance =
                       last_chance(attempt, is_last_provider(custom, remaining)),
                   ![w].messages = send(@, ProviderSelected(provider)),
                   ![w].pc = "usage"]
        /\ UNCHANGED <<providers, channels, order_states, providers_in_use,
                       provider_failures, panic_monitor, scheduler_panicked,
                       scheduler>>

\* mutant: the counter of a provider that has one is left as it is
increment_once(usages, p) ==
    [q \in DOMAIN usages \cup {p} |->
        IF q = p /\ p \notin DOMAIN usages THEN 1 ELSE usages[q]]

\* let value = usages.entry(provider).or_insert(0); *value += 1
increment(usages, p) ==
    [q \in DOMAIN usages \cup {p} |->
        IF q = p THEN Get(usages, p) + 1 ELSE usages[q]]

\* the usage of the selected provider is counted, under the usages lock
IncrementUsage(w) ==
    LET p == workers[w].provider
    IN  /\ workers[w].pc = "usage"
        /\ can_lock(w, "")
        /\ providers_in_use' = increment(providers_in_use, p)
        /\ workers' = [workers EXCEPT ![w].pc = "channel"]
        /\ UNCHANGED <<providers, channels, order_states, provider_failures,
                       panic_monitor, scheduler_panicked, scheduler>>

\* mutant: the channel is handed out and stays in the pool
take_copy(pool, p) == pool

\* channels.remove(&provider): the pool without the channel of the provider
take(pool, p) == [q \in DOMAIN pool \ {p} |-> pool[q]]

\* channels.insert(provider, channel)
put(pool, p, channel) ==
    [q \in DOMAIN pool \cup {p} |-> IF q = p THEN channel ELSE pool[q]]

\* Job::get_channel, first half: lock the Channel Pool and take the channel
\* of the provider out of it (NoChannel: there was none)
GetChannel(w) ==
    LET self == workers[w]
        p == self.provider
    IN  /\ self.pc = "channel"
        /\ can_lock(w, "")
        /\ channels' = take(channels, p)
        /\ workers' = [workers EXCEPT
              ![w].channel = IF p \in DOMAIN channels THEN channels[p] ELSE NoChannel,
              ![w].pc = "establish"]
        /\ UNCHANGED <<providers, order_states, providers_in_use,
                       provider_failures, panic_monitor, scheduler_panicked,
                       scheduler>>

\* Job::get_channel, second half: reuse_channel on the channel taken or
\* new_channel returns, the guard is dropped, and the loop sends
\* ChannelEstablished, or OrderError on both streams (a channel that was
\* taken went into reuse_channel by value and is gone)
ChannelResult(w) ==
    LET self == workers[w]
        channel == IF self.channel = NoChannel
                   THEN [id |-> <<w, self.num_attempt>>, job_resources |-> TRUE]
                   ELSE [self.channel EXCEPT !.job_resources = TRUE]
    IN  /\ self.pc = "establish"
        /\ \E ok \in BOOLEAN :
              workers' = [workers EXCEPT
                  ![w].channel = IF ok THEN channel ELSE NoChannel,
                  ![w].messages =
                      IF ok THEN send(@, ChannelEstablished(establishment(self.channel)))
                      ELSE send(@, OrderError),
                  ![w].progress = IF ok THEN @ ELSE send(@, FlexoProgressOrderError),
                  ![w].pc = IF ok THEN "serve" ELSE "handle_error"]
        /\ UNCHANGED <<providers, channels, order_states, providers_in_use,
                       provider_failures, panic_monitor, scheduler_panicked,
                       scheduler>>

\* mutant: ClientError and UnexpectedInternalError go on like Unavailable
loop_break_no_fatal(result, remaining, final) ==
    \/ is_success(result)
    \/ remaining = <<>>
    \/ final

\* the loop ends with this attempt: the two break arms of the match, and
\* the exit test after it
loop_break(result, remaining, final) ==
    \/ result.kind \in {"ClientError", "UnexpectedInternalError"}
    \/ is_success(result)
    \/ remaining = <<>>
    \/ final

\* the match on the JobResult and the loop's exit test
Interpret(w, result) ==
    LET self == workers[w]
        p == self.provider
        punished == result.kind \in {"Partial", "Error"}
        failures_after ==
            CASE result.kind = "Complete" -> reward(provider_failures, p)
              [] punished -> punish(provider_failures, p)
              [] OTHER -> provider_failures
        break == loop_break(result, self.providers, self.last_chance)
        holds_channel == result.kind \in {"Complete", "Partial", "Error", "Unavailable"}
    IN  /\ can_lock(w, result.kind)
        /\ provider_failures' = failures_after
        /\ workers' = [workers EXCEPT
              ![w].punished_providers = IF punished THEN Append(@, p) ELSE @,
              ![w].result = IF break THEN result ELSE NoResult,
              ![w].channel = IF break /\ holds_channel THEN @ ELSE NoChannel,
              ![w].delta = Applied(w, failures_after),
              ![w].attempts = Append(@, <<p, result.kind>>),
              ![w].pc = IF ~break THEN "select"
                        ELSE IF is_success(result) THEN "remove" ELSE "pardon"]
        /\ UNCHANGED <<providers, channels, order_states, providers_in_use,
                       panic_monitor, scheduler_panicked, scheduler>>

\* Job::serve_from_provider returns
Serve(w) ==
    /\ workers[w].pc = "serve"
    /\ \E result \in JobResults : Interpret(w, result)

\* Job::handle_error converts the channel error into a JobResult
HandleError(w) ==
    /\ workers[w].pc = "handle_error"
    /\ \E result \in HandleErrorResults : Interpret(w, result)

\* a collaborator call panics inside the Attempt Loop: the thread unwinds,
\* which poisons the liveness token it holds
ServePanic(w) ==
    /\ workers[w].pc = "serve"
    /\ workers' = [workers EXCEPT ![w].pc = "panicked"]
    /\ UNCHANGED <<providers, channels, order_states, providers_in_use,
                   provider_failures, panic_monitor, scheduler_panicked,
                   scheduler>>

\* after the loop, when the result is no success
Pardon(w) ==
    LET self == workers[w]
        failures_after == pardon(self.punished_providers, provider_failures)
    IN  /\ self.pc = "pardon"
        /\ can_lock(w, "")
        /\ provider_failures' = failures_after
        /\ workers' = [workers EXCEPT
              ![w].delta = Applied(w, failures_after),
              ![w].pardon_entry = provider_failures,
              ![w].pc = "remove"]
        /\ UNCHANGED <<providers, channels, order_states, providers_in_use,
                       panic_monitor, scheduler_panicked, scheduler>>

\* mutant: the worker leaves the entry of its order in the Index
RemoveOrder_keep(w) ==
    /\ workers[w].pc = "remove"
    /\ can_lock(w, "")
    /\ workers' = [workers EXCEPT ![w].pc = "finish", ![w].pardon_entry = EmptyMap]
    /\ UNCHANGED <<providers, channels, order_states, providers_in_use,
                   provider_failures, panic_monitor, scheduler_panicked,
                   scheduler>>

\* order_states.lock().unwrap().remove(&order_cloned)
RemoveOrder(w) ==
    /\ workers[w].pc = "remove"
    /\ can_lock(w, "")
    /\ order_states' = [order_states EXCEPT ![workers[w].order] = Absent]
    /\ workers' = [workers EXCEPT ![w].pc = "finish", ![w].pardon_entry = EmptyMap]
    /\ UNCHANGED <<providers, channels, providers_in_use, provider_failures,
                   panic_monitor, scheduler_panicked, scheduler>>

\* the Complete arm, first half: lock the Channel Pool, release the job
\* resources of the channel of the result and insert it under its provider;
\* the guard lives until the end of the arm
PutChannel(w) ==
    LET self == workers[w]
    IN  /\ self.pc = "finish"
        /\ self.result.kind = "Complete"
        /\ can_lock(w, self.result.kind)
        /\ channels' = put(channels, self.provider,
                           release_job_resources(self.channel))
        /\ workers' = [workers EXCEPT ![w].channel = NoChannel,
                                      ![w].pc = "insert"]
        /\ UNCHANGED <<providers, order_states, providers_in_use,
                       provider_failures, panic_monitor, scheduler_panicked,
                       scheduler>>

\* mutant: the size is stored as the cached size only
cached_item_partial(size) == Cached(None, size)

\* mutant: the last byte is not counted as cached
cached_item_short(size) == Cached(size, size - 1)

\* the CachedItem built in the Complete arm
cached_item(size) == Cached(size, size)

\* the end of the match on the final result; the thread then ends and frees
\* its token.  The Complete arm locks the Order Index (still holding the
\* guard of the Channel Pool) and inserts the CachedItem; the other arms
\* lock the failures map and clone it.
Finish(w) ==
    LET self == workers[w]
        p == self.provider
        ended == [self EXCEPT !.pc = "done", !.channel = NoChannel,
                              !.providers = <<>>, !.punished_providers = <<>>]
    IN  /\ self.pc = IF self.result.kind = "Complete" THEN "insert" ELSE "finish"
        /\ can_lock(w, self.result.kind)
        /\ IF self.result.kind = "Complete"
           THEN /\ order_states' =
                      [order_states EXCEPT ![self.order] =
                          cached_item(self.result.size)]
                /\ workers' = [workers EXCEPT ![w] =
                      [ended EXCEPT !.job_outcome =
                          [kind |-> "Success", provider |-> p, failures |-> EmptyMap]]]
           ELSE /\ workers' = [workers EXCEPT ![w] =
                      [ended EXCEPT !.job_outcome =
                          [kind |-> "Error", provider |-> NoProvider,
                           failures |-> provider_failures]]]
                /\ UNCHANGED order_states
        /\ UNCHANGED <<providers, channels, providers_in_use, provider_failures,
                       panic_monitor, scheduler_panicked, scheduler>>

\* one step of the thread of worker w
WorkerStep(w) ==
        \/ WorkerStart(w)
        \/ EnterSelect(w)
        \/ SelectProvider(w)
        \/ IncrementUsage(w)
        \/ GetChannel(w)
        \/ ChannelResult(w)
        \/ Serve(w)
        \/ HandleError(w)
        \/ ServePanic(w)
        \/ Pardon(w)
        \/ RemoveOrder(w)
        \/ PutChannel(w)
        \/ Finish(w)

Worker == \E w \in 1 .. Len(workers) : WorkerStep(w)

Next == TrySchedule \/ ReturnUncacheable \/ Worker

Spec == Init /\ [][Next]_vars

\* ------------------------------------------------------- fair scheduling
\* every thread keeps running: a call that is inside try_schedule returns,
\* and a worker takes its next step; a worker that waits for a lock which is
\* free again and again gets it at some time (the collaborator call it is in
\* returns, or panics)
Fairness ==
    /\ WF_vars(ReturnUncacheable)
    /\ \A w \in 1 .. MaxWorkers :
          SF_vars(w <= Len(workers) /\ WorkerStep(w))

\* a first start: the cache directory holds no file of a cacheable order
FairInit == Init /\ order_states["X"] = Absent

FairSpec == FairInit /\ [][Next]_vars /\ Fairness

\* ------------------------------------------------- one Attempt Loop alone
\* provider lists a JobContext may be constructed with
ProviderLists ==
    {list \in UNION {[1 .. n -> AllProviders] : n \in 1 .. Cardinality(AllProviders)} :
        \A i, j \in 1 .. Len(list) : i # j => list[i] # list[j]}

\* failures maps earlier orders may have left behind (a key exists once its
\* provider was punished or rewarded)
FailureMaps ==
    UNION {[S -> (0 - MaxFailures) .. MaxFailures] : S \in SUBSET AllProviders}

\* usages maps earlier orders may have left behind (a key exists once its
\* provider was selected)
UsageMaps == UNION {[S -> 1 .. MaxUsages] : S \in SUBSET AllProviders}

\* the state right after try_schedule("X", None) returned Scheduled, in a
\* JobContext with any provider list and any statistics of earlier orders
LoopInit ==
    /\ providers \in ProviderLists
    /\ channels = EmptyMap
    /\ order_states = [o \in Orders |-> IF o = "X" THEN InProgress ELSE Absent]
    /\ providers_in_use \in UsageMaps
    /\ provider_failures \in FailureMaps
    /\ panic_monitor = <<1>>
    /\ workers = <<NewWorker("X", 0)>>
    /\ scheduler_panicked = FALSE
    /\ scheduler = Idle

LoopSpec == LoopInit /\ [][Worker]_vars

\* ------------------------------------------- one Attempt Loop, long lists
MaxExtra == 1

\* provider lists around the limit of attempts, and the shortest one
LongLens ==
    {1} \cup (NUM_MAX_ATTEMPTS - 1 .. NUM_MAX_ATTEMPTS + MaxExtra)

\* n providers "1" .. "n" of equal static score
LongProviders(n) == [i \in 1 .. n |-> ToString(i)]

\* the state right after try_schedule("X", None) returned Scheduled, in a
\* fresh JobContext with a long provider list
LongLoopInit ==
    /\ providers \in {LongProviders(n) : n \in LongLens}
    /\ channels = EmptyMap
    /\ order_states = [o \in Orders |-> IF o = "X" THEN InProgress ELSE Absent]
    /\ providers_in_use = EmptyMap
    /\ provider_failures = EmptyMap
    /\ panic_monitor = <<1>>
    /\ workers = <<NewWorker("X", 0)>>
    /\ scheduler_panicked = FALSE
    /\ scheduler = Idle

\* the collaborators of a long run: every channel but the last gets
\* established and every Job but the last reports Unavailable, so the loop
\* goes on to the next provider only from that result
QuietRetry ==
    \A w \in 1 .. Len(workers) :
        (workers[w].pc \in {"serve", "handle_error"} /\ workers'[w].pc = "select")
            => /\ workers[w].pc = "serve"
               /\ workers'[w].attempts[Len(workers'[w].attempts)][2] = "Unavailable"

LongLoopNext == Worker /\ QuietRetry

LongLoopSpec == LongLoopInit /\ [][LongLoopNext]_vars

\* --------------------------------------------- two Attempt Loops together
\* the state right after try_schedule returned Scheduled for two different
\* orders without custom provider, X and Z, in a JobContext that is fresh or
\* has completed one earlier order via A
PairInit ==
    /\ providers = GlobalProviders
    /\ channels = EmptyMap
    /\ order_states = [o \in Orders \cup {"Z"} |->
                          IF o \in {"X", "Z"} THEN InProgress ELSE Absent]
    /\ providers_in_use = EmptyMap
    /\ provider_failures \in {EmptyMap, reward(EmptyMap, "A")}
    /\ panic_monitor = <<1, 2>>
    /\ workers = <<NewWorker("X", 0), NewWorker("Z", 0)>>
    /\ scheduler_panicked = FALSE
    /\ scheduler = Idle

PairSpec == PairInit /\ [][Worker]_vars

\* ================================================================== claims
WorkerIds == 1 .. Len(workers)

WorkersOf(order) == {w \in WorkerIds : workers[w].order = order}

Rf(resume_from) == IF resume_from = None THEN 0 ELSE resume_from

\* a step in which no worker thread moved: a step of the scheduler
SchedulerStep == \A w \in WorkerIds : workers'[w].pc = workers[w].pc

\* the step changes the state and is the call try_schedule(order, resume_from)
Calls(order, resume_from) ==
    vars' # vars /\ SchedulerStep /\ try_schedule(order, resume_from)

\* C1: at every instant at most one worker spawned for an order is alive,
\* a worker being alive from its spawn until it has written its final Order
\* Index state and produced its outcome.
C1_AtMostOneAliveWorkerPerOrder ==
    \A w1, w2 \in WorkerIds :
        (w1 # w2 /\ Alive(w1) /\ Alive(w2)) => workers[w1].order # workers[w2].order

\* C2: once a worker for order o has finished with a Complete result of size
\* s, every later try_schedule(o, r) with r absent, r = 0 or r <= s returns
\* Cached.
C2_CompleteThenCached ==
    \A w \in WorkerIds :
        (workers[w].pc = "done" /\ workers[w].result.kind = "Complete") =>
            \A resume_from \in ResumeFroms :
                Rf(resume_from) <= workers[w].result.size =>
                    ScheduleOutcome(workers[w].order, resume_from).kind = "Cached"

CacheableOrders == {order \in Orders : is_cacheable(order)}

\* the row of the decision table that applies to (entry, rf)
TableRow(entry, rf) ==
    IF entry.tag = "Absent" /\ rf > 0 THEN "Uncacheable"
    ELSE IF entry.tag = "Absent" THEN "ScheduledFromZero"
    ELSE IF entry.tag = "Cached" /\ entry.cached_size < rf THEN "Uncacheable"
    ELSE IF entry.tag = "Cached" /\ entry.complete_size = entry.cached_size THEN "Cached"
    ELSE IF entry.tag = "Cached" THEN "ScheduledFromCached"
    ELSE "AlreadyInProgress"

\* the last thread spawned by the step
Spawned == workers'[Len(workers')]

\* C3: for a cacheable order, the outcome of try_schedule and the resulting
\* Index entry follow the decision table on (entry, resume_from), rows tried
\* in order: absent and resume_from > 0 -> Uncacheable; absent -> InProgress,
\* Scheduled with cached_size 0; Cached with cached_size < resume_from ->
\* Uncacheable; Cached and complete -> Cached; other Cached -> InProgress,
\* Scheduled with the entry's cached_size handed to the worker; InProgress ->
\* AlreadyInProgress.  (A call that ends in the supervisor's fatal error
\* returns no outcome; the entry is InProgress all the same.)
C3_DecisionTable ==
    /\ [](\A order \in CacheableOrders, resume_from \in ResumeFroms :
            LET entry == order_states[order]
                row == TableRow(entry, Rf(resume_from))
                outcome == ScheduleOutcome(order, resume_from)
            IN  IF row \in {"ScheduledFromZero", "ScheduledFromCached"}
                THEN /\ outcome.kind \in {"Scheduled", "Panic"}
                     /\ outcome.cached_size =
                           IF row = "ScheduledFromZero" THEN 0 ELSE entry.cached_size
                ELSE outcome.kind = row)
    /\ [][\A order \in CacheableOrders, resume_from \in ResumeFroms :
            Calls(order, resume_from) =>
              LET entry == order_states[order]
                  row == TableRow(entry, Rf(resume_from))
              IN  IF row \in {"ScheduledFromZero", "ScheduledFromCached"}
                  THEN /\ order_states' = [order_states EXCEPT ![order] = InProgress]
                       /\ ~scheduler_panicked' =>
                             /\ Len(workers') = Len(workers) + 1
                             /\ Spawned.order = order
                             /\ Spawned.cached_size =
                                   IF row = "ScheduledFromZero" THEN 0
                                   ELSE entry.cached_size
                  ELSE UNCHANGED <<order_states, workers>>]_vars

\* a partially cached order (cached_size 1) was scheduled and its cached size
\* handed to the worker, and a call with resume_from = 2 = cached_size + 1
\* would have been Uncacheable
C3_Witness ==
    /\ Len(workers) = 1 /\ workers[1].order = "X" /\ workers[1].cached_size = 1
    /\ order_states["X"] = InProgress
    /\ ScheduleOutcome("X", 1).kind = "AlreadyInProgress"
    /\ ScheduleOutcome("Y", 1).kind = "Uncacheable"

\* C4: a try_schedule that returns Uncacheable, Cached or AlreadyInProgress
\* spawns no worker and leaves the Order Index, failures, usages, the global
\* provider list and the Channel Pool unchanged; an order that is not
\* cacheable gets Uncacheable(p), p its custom provider if set and else the
\* first provider of the global list, whatever its Index entry.
C4_NoEffectOutcomes ==
    /\ [](\A order \in Orders \ CacheableOrders, resume_from \in ResumeFroms :
            LET outcome == ScheduleOutcome(order, resume_from)
            IN  /\ outcome.kind = "Uncacheable"
                /\ outcome.provider = IF custom_provider(order) # NoProvider
                                      THEN custom_provider(order) ELSE providers[1])
    /\ [][\A order \in Orders, resume_from \in ResumeFroms :
            (/\ Calls(order, resume_from)
             /\ ScheduleOutcome(order, resume_from).kind \in
                   {"Uncacheable", "Cached", "AlreadyInProgress"})
            => UNCHANGED <<workers, order_states, provider_failures,
                           providers_in_use, providers, channels>>]_vars

\* uncacheable orders are answered while a worker runs and a channel is
\* pooled: "V" with its custom provider, "U" with the first global provider
\* although the Index holds a complete entry for it
C4_Witness ==
    /\ ScheduleOutcome("V", None) =
          [kind |-> "Uncacheable", provider |-> "C", cached_size |-> 0]
    /\ ScheduleOutcome("U", 0) =
          [kind |-> "Uncacheable", provider |-> "A", cached_size |-> 0]
    /\ order_states["U"].tag = "Cached"
    /\ \E w \in WorkerIds : Alive(w)
    /\ DOMAIN channels # {}

\* pcs of a worker that still has to remove its order's InProgress mark
BeforeRemove == {"start", "select", "select_failures", "usage", "channel",
                 "establish", "serve",
                 "handle_error",
                 "pardon", "remove"}

\* C5: if the Index entry of an order is InProgress then exactly one worker
\* exists that was spawned for it and has not yet removed that entry.
C5_InProgressHasOneWorker ==
    \A order \in Orders :
        order_states[order].tag = "InProgress" =>
            Cardinality({w \in WorkersOf(order) : workers[w].pc \in BeforeRemove}) = 1

\* C6: after a worker thread has ended, normally or by a panic, the mark it
\* was spawned under is released: the entry of its order is not InProgress
\* unless a worker for that order is still running.
C6_MarkReleasedOnTermination ==
    \A w \in WorkerIds :
        (~Alive(w) /\ ~\E w2 \in WorkersOf(workers[w].order) : Alive(w2))
            => order_states[workers[w].order].tag # "InProgress"

Range(seq) == {seq[i] : i \in 1 .. Len(seq)}

\* C7: once a worker has panicked, the next call to try_schedule, for any
\* order and whatever its Index entry, surfaces the fatal error instead of
\* returning an outcome; and the sweep never drops the token of a worker
\* that later panics.
C7_PanicIsFatalAtNextCall ==
    ((\E w \in WorkerIds : workers[w].pc = "panicked") /\ ~scheduler_panicked) =>
        /\ \A order \in Orders, resume_from \in ResumeFroms :
              ScheduleOutcome(order, resume_from).kind = "Panic"
        /\ \A w \in WorkerIds :
              workers[w].pc = "panicked" => w \in Range(panic_monitor)

AfterLoop == {"remove", "finish", "insert", "done"}

Count(p, seq) == Cardinality({i \in 1 .. Len(seq) : seq[i] = p})

\* C9: across an Attempt Loop that ends in Complete the loop rewards exactly
\* once, the provider whose Job returned Complete (net -1); every provider
\* whose attempt returned Partial or Error earlier keeps its +1; a provider
\* whose attempt returned Unavailable has its entry unchanged by the loop.
C9_SuccessfulLoopDeltas ==
    \A w \in WorkerIds :
        (workers[w].pc \in AfterLoop /\ workers[w].result.kind = "Complete") =>
            LET attempts == workers[w].attempts
                n == Len(attempts)
            IN  /\ n >= 1
                /\ attempts[n] = <<workers[w].provider, "Complete">>
                /\ \A i \in 1 .. (n - 1) : attempts[i][2] # "Complete"
                /\ \A p \in AllProviders :
                      workers[w].delta[p] =
                          Count(<<p, "Partial">>, attempts) + Count(<<p, "Error">>, attempts)
                          - Count(<<p, "Complete">>, attempts)

\* retry on error: A failed, B completed
C9_Witness ==
    /\ Len(workers) = 1 /\ workers[1].pc = "done"
    /\ workers[1].attempts = <<<<"A", "Error">>, <<"B", "Complete">>>>
    /\ provider_failures = [p \in {"A", "B"} |-> IF p = "A" THEN 1 ELSE -1]
    /\ workers[1].job_outcome.kind = "Success"

\* the step is worker w's pardon after its loop
PardonStep(w) == workers[w].pc = "pardon" /\ workers'[w].pc = "remove"

\* C10: pardon(ps) decrements failures[p] only for those p in ps whose entry
\* is present and nonzero; an entry that is 0 is left at 0, missing keys are
\* skipped.
C10_PardonSkipsZero ==
    [][\A w \in WorkerIds : PardonStep(w) =>
          /\ DOMAIN provider_failures' = DOMAIN provider_failures
          /\ \A p \in DOMAIN provider_failures :
                provider_failures'[p] =
                    IF Count(p, workers[w].punished_providers) > 0
                       /\ provider_failures[p] # 0
                    THEN provider_failures[p] - 1
                    ELSE provider_failures[p]]_vars

\* C10 as amended: pardon(ps) decrements failures[p] once for each p in ps
\* whose entry is present, whatever its value (an entry that is 0 becomes
\* -1), inserts no key and touches no other entry.
C10_PardonDecrementsPresent ==
    [][\A w \in WorkerIds : PardonStep(w) =>
          /\ DOMAIN provider_failures' = DOMAIN provider_failures
          /\ \A p \in DOMAIN provider_failures :
                provider_failures'[p] =
                    provider_failures[p] - Count(p, workers[w].punished_providers)]_vars

\* a worker has just pardoned a provider whose entry was 0 when it did
C10_Witness ==
    \E w \in WorkerIds :
        /\ workers[w].pc = "remove"
        /\ \E p \in Range(workers[w].punished_providers) :
              /\ p \in DOMAIN workers[w].pardon_entry
              /\ workers[w].pardon_entry[p] = 0
              /\ provider_failures[p] = -1

\* a is lexicographically smaller than b (tuples of the same length)
LexLess(a, b) ==
    \E i \in 1 .. Len(a) : a[i] < b[i] /\ \A j \in 1 .. (i - 1) : a[j] = b[j]

\* C11: DynamicScore is ordered lexicographically on (num_failures,
\* num_current_usages, initial_score), ascending: a < b iff the tuple of a is
\* lexicographically smaller than that of b; so fewer failures win whatever
\* the usages and the static score, and with equal failures and usages the
\* lower static score wins.
C11_DynamicScoreLexicographic ==
    \A p, q \in AllProviders :
        LET a == DynamicScore(p, provider_failures, providers_in_use)
            b == DynamicScore(q, provider_failures, providers_in_use)
            fp == Get(provider_failures, p)
            fq == Get(provider_failures, q)
            up == Get(providers_in_use, p)
            uq == Get(providers_in_use, q)
        IN  /\ ScoreLess(a, b) <=>
                  LexLess(<<fp, up, initial_score(p)>>, <<fq, uq, initial_score(q)>>)
            /\ fp < fq => ScoreLess(a, b)
            /\ (fp = fq /\ up = uq /\ initial_score(p) < initial_score(q))
                  => ScoreLess(a, b)
            /\ ~(ScoreLess(a, b) /\ ScoreLess(b, a))

\* the loop took B first although A is listed first, is used less and has the
\* better static score: B has fewer failures
C11_Witness ==
    /\ providers = <<"A", "B", "C">>
    /\ workers[1].num_attempt = 1 /\ workers[1].provider = "B"
    /\ Get(provider_failures, "B") < Get(provider_failures, "A")
    /\ Get(providers_in_use, "B") > Get(providers_in_use, "A") + 1
    /\ initial_score("A") < initial_score("B")

\* the step is worker w's selection of a provider at the top of the loop
SelectStep(w) ==
    workers[w].pc \in {"select", "select_failures"} /\ workers'[w].pc = "usage"

\* the score tuple of provider q in the current shared maps
ScoreTuple(q) ==
    <<Get(provider_failures, q), Get(providers_in_use, q), initial_score(q)>>

\* C12: select_provider on a non-empty working copy returns a provider whose
\* DynamicScore (failures and usages from the shared maps, missing keys
\* counting as 0) is minimal among the providers remaining in the copy,
\* removes exactly that provider from the copy, and reports is_last = true
\* iff the copy is then empty; the global provider list is never changed.
C12_SelectProviderMinimal ==
    [][/\ providers' = providers
       /\ \A w \in WorkerIds :
             (SelectStep(w) /\ custom_provider(workers[w].order) = NoProvider) =>
                LET before == workers[w].providers
                    after == workers'[w].providers
                    chosen == workers'[w].provider
                IN  /\ \E idx \in 1 .. Len(before) :
                          /\ before[idx] = chosen
                          /\ Len(after) = Len(before) - 1
                          /\ \A i \in 1 .. Len(after) :
                                after[i] = IF i < idx THEN before[i] ELSE before[i + 1]
                    /\ \A q \in Range(before) : ~LexLess(ScoreTuple(q), ScoreTuple(chosen))
                    /\ workers'[w].num_attempt < NUM_MAX_ATTEMPTS =>
                          (workers'[w].last_chance <=> after = <<>>)]_vars

\* the second of three providers was selected and removed, the other two
\* remain in their order, and the global list is still complete
C12_Witness ==
    /\ providers = <<"A", "B", "C">>
    /\ workers[1].pc = "usage" /\ workers[1].num_attempt = 1
    /\ workers[1].provider = "B"
    /\ workers[1].providers = <<"A", "C">>
    /\ ~workers[1].last_chance

\* pcs between the ProviderSelected of an attempt and its second message
PairOpen == {"usage", "channel", "establish"}

FinishStep(w) ==
    workers[w].pc \in {"finish", "insert"} /\ workers'[w].pc = "done"

\* the step is worker w's put into the Channel Pool
PutStep(w) == workers[w].pc = "finish" /\ workers'[w].pc = "insert"

\* the provider and the kind of the attempt that ended the loop of worker w
LastAttempt(w) == workers[w].attempts[Len(workers[w].attempts)]

\* C14: when the Attempt Loop of a worker ends in Complete with size s from
\* provider p, then with the termination of the worker the Index entry of
\* its order is Cached{complete_size = Some(s), cached_size = s} and the
\* outcome of the worker is Success(p).
C14_CompleteWritesCached ==
    /\ [](\A w \in WorkerIds :
            (workers[w].pc = "done" /\ workers[w].result.kind = "Complete") =>
                workers[w].job_outcome =
                    [kind |-> "Success", provider |-> LastAttempt(w)[1],
                     failures |-> EmptyMap])
    /\ [][\A w \in WorkerIds :
            (FinishStep(w) /\ workers[w].result.kind = "Complete") =>
                /\ LastAttempt(w)[2] = "Complete"
                /\ order_states'[workers[w].order] =
                      [tag |-> "Cached",
                       complete_size |-> workers[w].result.size,
                       cached_size |-> workers[w].result.size]
                /\ workers'[w].job_outcome.kind = "Success"
                /\ workers'[w].job_outcome.provider = LastAttempt(w)[1]]_vars

\* an order that was partially cached (1 of 2) was completed by B after A
\* had failed
C14_Witness ==
    /\ Len(workers) = 1 /\ workers[1].pc = "done" /\ workers[1].cached_size = 1
    /\ workers[1].attempts = <<<<"A", "Partial">>, <<"B", "Complete">>>>
    /\ order_states["X"] = Cached(MaxSize, MaxSize)
    /\ workers[1].job_outcome.provider = "B"

\* the step is worker w's removal of the entry of its order
RemoveStep(w) == workers[w].pc = "remove" /\ workers'[w].pc = "finish"

FailedKinds == {"Partial", "Error", "Unavailable", "ClientError",
                "UnexpectedInternalError"}

\* C15: when the Attempt Loop of a worker ends in Partial, Error,
\* Unavailable, ClientError or UnexpectedInternalError, the worker removes
\* the entry of its order and inserts nothing: its removal leaves the order
\* absent from the Index (also when the order was Cached with a partial size
\* before it was scheduled) and its last step leaves the Index as it is, the
\* channel of the failed attempt is not put into the Channel Pool, and the
\* outcome is Error(snapshot of the failures map).
C15_FailureRemovesEntry ==
    [][\A w \in WorkerIds :
          workers[w].result.kind \in FailedKinds =>
            /\ RemoveStep(w) =>
                  /\ order_states'[workers[w].order] = Absent
                  /\ UNCHANGED channels
            /\ FinishStep(w) =>
                  /\ UNCHANGED <<order_states, channels>>
                  /\ workers'[w].job_outcome =
                        [kind |-> "Error", provider |-> NoProvider,
                         failures |-> provider_failures]]_vars

\* a partially cached order was scheduled, its only attempts ended in
\* Partial: the order is absent, the pool is empty, the outcome is the error
C15_Witness ==
    /\ Len(workers) = 1 /\ workers[1].pc = "done" /\ workers[1].cached_size = 1
    /\ workers[1].result.kind = "Partial"
    /\ order_states["X"] = Absent
    /\ channels = EmptyMap
    /\ workers[1].job_outcome.kind = "Error"

\* the step is worker w's take from the Channel Pool
TakeStep(w) == workers[w].pc = "channel" /\ workers'[w].pc = "establish"

\* the step is the end of worker w's channel establishment
EstablishStep(w) ==
    workers[w].pc = "establish" /\ workers'[w].pc \in {"serve", "handle_error"}

LastMessage(w) == workers[w].messages[Len(workers[w].messages)]

\* C16: upstream connections are reused: an attempt on provider p that
\* establishes its channel reports ChannelEstablished(ExistingChannel) iff
\* the Channel Pool held a channel for p when the attempt took it, and
\* NewChannel otherwise; a worker that
\* completes via p leaves a channel for p in the pool, which stays there
\* until the next attempt on p takes it, and while that attempt runs the pool
\* holds no channel for p unless another worker completes via p.
C16_ChannelReuse ==
    /\ [](\A w \in WorkerIds :
            workers[w].pc = "serve" =>
                /\ LastMessage(w) =
                      ChannelEstablished(IF workers[w].channel.id[1] = w
                                            /\ workers[w].channel.id[2] = workers[w].num_attempt
                                         THEN "NewChannel" ELSE "ExistingChannel")
                /\ \A p \in DOMAIN channels : channels[p].id # workers[w].channel.id)
    /\ [][/\ \A w \in WorkerIds :
              LET p == workers[w].provider
              IN  /\ TakeStep(w) =>
                        /\ workers'[w].channel =
                              IF p \in DOMAIN channels THEN channels[p] ELSE NoChannel
                        /\ p \notin DOMAIN channels'
                  /\ (EstablishStep(w) /\ workers'[w].pc = "serve") =>
                        workers'[w].messages =
                            Append(workers[w].messages,
                                   ChannelEstablished(IF workers[w].channel # NoChannel
                                                      THEN "ExistingChannel"
                                                      ELSE "NewChannel"))
                  /\ PutStep(w) => p \in DOMAIN channels'
         /\ \A p \in AllProviders :
              /\ (p \in DOMAIN channels /\ p \notin DOMAIN channels') =>
                    \E w \in WorkerIds : TakeStep(w) /\ workers[w].provider = p
              /\ (p \notin DOMAIN channels /\ p \in DOMAIN channels') =>
                    \E w \in WorkerIds :
                        /\ PutStep(w) /\ workers[w].result.kind = "Complete"
                        /\ workers[w].provider = p]_vars

\* the first order completed via A; the next order's first attempt is on A,
\* runs on the channel the first worker opened and reported ExistingChannel,
\* and the pool holds no channel for A meanwhile
C16_Witness ==
    /\ Len(workers) = 2
    /\ workers[1].pc = "done" /\ workers[1].attempts = <<<<"A", "Complete">>>>
    /\ workers[2].pc = "serve"
    /\ workers[2].messages =
          <<ProviderSelected("A"), ChannelEstablished("ExistingChannel")>>
    /\ workers[2].channel.id = <<1, 1>>
    /\ "A" \notin DOMAIN channels

\* C17: orders do not block each other: while the worker of an order is
\* inside Job.serve_from_provider it holds no shared lock, every other live
\* worker can take its next step (select a provider, obtain a channel, run
\* its Job, write its final Index state) unless a third worker holds a lock,
\* and try_schedule for a different order returns.
C17_OrdersDoNotBlock ==
    \A w1 \in WorkerIds :
        workers[w1].pc = "serve" =>
            /\ locks_held(w1) = <<>>
            /\ \A w2 \in WorkerIds \ {w1} :
                  (/\ Alive(w2)
                   /\ scheduler_locks = <<>>
                   /\ \A w3 \in WorkerIds \ {w1, w2} : locks_held(w3) = <<>>)
                  => ENABLED WorkerStep(w2)
            /\ (~scheduler_panicked /\ Len(workers) < MaxWorkers /\ scheduler = Idle) =>
                  \A order \in Orders \ {workers[w1].order}, resume_from \in ResumeFroms :
                      ENABLED try_schedule(order, resume_from)

\* the worker of X is still inside its first serve_from_provider; the
\* worker of Y, spawned after it, has run its Job and written Cached
C17_Witness ==
    /\ Len(workers) = 2
    /\ workers[1].order = "X" /\ workers[1].pc = "serve" /\ workers[1].num_attempt = 1
    /\ workers[2].order = "Y" /\ workers[2].pc = "done"
    /\ workers[2].job_outcome.kind = "Success"
    /\ order_states["Y"] = Cached(MaxSize, MaxSize)
    /\ order_states["X"] = InProgress

LoopEnded == {"pardon", "remove", "finish", "insert", "done"}

RetryKinds == {"Complete", "Partial", "Error", "Unavailable"}

\* the providers worker w has made an attempt on
Tried(w) == {workers[w].attempts[i][1] : i \in 1 .. Len(workers[w].attempts)}

\* C18: retry reaches a working mirror: for an order without custom provider
\* whose Jobs each return Complete, Partial, Error or Unavailable, the
\* Attempt Loop ends in Complete (outcome Success) iff a provider of the
\* working list returns Complete: a loop that does not end in Complete has
\* tried every provider of the list, once each, and none returned Complete.
C18_RetryReachesWorkingMirror ==
    \A w \in WorkerIds :
        LET self == workers[w]
            attempts == self.attempts
        IN  (/\ self.pc \in LoopEnded
             /\ custom_provider(self.order) = NoProvider
             /\ \A i \in 1 .. Len(attempts) : attempts[i][2] \in RetryKinds)
            => /\ self.result.kind = "Complete"
                     <=> \E i \in 1 .. Len(attempts) : attempts[i][2] = "Complete"
               /\ self.result.kind # "Complete" => Tried(w) = Range(providers)
               /\ Tried(w) \subseteq Range(providers)
               /\ Cardinality(Tried(w)) = Len(attempts)
               /\ self.pc = "done" =>
                     (self.job_outcome.kind = "Success" <=> self.result.kind = "Complete")

\* the best-ranked provider failed, the second did not have the order, the
\* third served it
C18_Witness ==
    /\ providers = <<"A", "B", "C">>
    /\ workers[1].pc = "done"
    /\ workers[1].attempts =
          <<<<"A", "Error">>, <<"B", "Unavailable">>, <<"C", "Complete">>>>
    /\ workers[1].job_outcome = [kind |-> "Success", provider |-> "C",
                                  failures |-> EmptyMap]

\* the step is worker w's usage increment
UsageStep(w) == workers[w].pc = "usage" /\ workers'[w].pc = "channel"

\* the step is the return of worker w's Job (or of handle_error) and the
\* match on its result
ResultStep(w) ==
    /\ workers[w].pc \in {"serve", "handle_error"}
    /\ workers'[w].pc \in {"select", "pardon", "remove"}

\* C19: an order with a custom provider is single-shot: its Attempt Loop
\* makes exactly one attempt, on the custom provider, with last_chance =
\* true, never removes a provider from the working list whatever the Job
\* result, and still applies punish (Partial, Error) or reward (Complete) and
\* the usage increment to the custom provider.
C19_CustomProviderSingleShot ==
    /\ [](\A w \in WorkerIds :
            LET self == workers[w]
                custom == custom_provider(self.order)
            IN  custom # NoProvider =>
                  /\ self.num_attempt <= 1
                  /\ self.pc \in LoopEnded => Len(self.attempts) = 1
                  /\ \A i \in 1 .. Len(self.attempts) : self.attempts[i][1] = custom
                  /\ self.num_attempt = 1 => (self.provider = custom /\ self.last_chance)
                  /\ Alive(w) => self.providers = providers)
    /\ [][\A w \in WorkerIds :
            LET custom == custom_provider(workers[w].order)
                kind == workers'[w].attempts[Len(workers'[w].attempts)][2]
            IN  custom # NoProvider =>
                  /\ UsageStep(w) =>
                        /\ custom \in DOMAIN providers_in_use'
                        /\ providers_in_use'[custom] = Get(providers_in_use, custom) + 1
                  /\ ResultStep(w) =>
                        /\ workers'[w].pc # "select"
                        /\ Get(provider_failures', custom) =
                              Get(provider_failures, custom)
                              + (CASE kind \in {"Partial", "Error"} -> 1
                                   [] kind = "Complete" -> -1
                                   [] OTHER -> 0)
                        /\ kind \in {"Partial", "Error", "Complete"} =>
                              custom \in DOMAIN provider_failures']_vars

\* the order with custom provider C made one attempt, on C, which was
\* punished and pardoned; the working list was not touched
C19_Witness ==
    \E w \in WorkerIds :
        /\ workers[w].order = "Y" /\ workers[w].pc = "remove"
        /\ workers[w].attempts = <<<<"C", "Error">>>>
        /\ workers[w].providers = <<"A", "B">>
        /\ workers[w].punished_providers = <<"C">>
        /\ providers_in_use["C"] = 1

\* C20: in every reachable state every channel stored in the Channel Pool
\* has no job resources attached: a worker releases the job resources
\* before it puts the channel into the pool, and nothing else inserts into
\* the pool.
C20_PooledChannelsHaveNoJobResources ==
    /\ [](\A p \in DOMAIN channels : ~channels[p].job_resources)
    /\ [][\A p \in AllProviders :
            (p \in DOMAIN channels' /\ (p \notin DOMAIN channels \/ channels'[p] # channels[p]))
            => \E w \in WorkerIds :
                  /\ PutStep(w) /\ workers[w].result.kind = "Complete"
                  /\ workers[w].provider = p
                  /\ workers[w].channel.job_resources
                  /\ channels'[p] = [id |-> workers[w].channel.id,
                                      job_resources |-> FALSE]]_vars

\* a worker served its order over a channel with job resources attached and
\* has put that channel into the pool
C20_Witness ==
    /\ "A" \in DOMAIN channels
    /\ channels["A"] = [id |-> <<1, 1>>, job_resources |-> FALSE]
    /\ workers[1].pc = "done" /\ workers[1].result.kind = "Complete"

StepKind(w) ==
    IF /\ workers[w].pc \in {"serve", "handle_error"}
       /\ Len(workers'[w].attempts) > Len(workers[w].attempts)
    THEN workers'[w].attempts[Len(workers'[w].attempts)][2]
    ELSE workers[w].result.kind

\* the step is a step of the thread of worker w
StepOf(w) == workers'[w] # workers[w]

\* the step is the return of best_provider inside try_schedule's match
ReturnStep == scheduler.pc = "best_provider" /\ scheduler' = Idle

\* C22: no thread ever holds more than one of the shared locks (Order Index,
\* provider list, failures, usages, Channel Pool) at a time: a thread that
\* takes one of them holds none.
C22_AtMostOneLock ==
    [][/\ \A w \in WorkerIds :
             (StepOf(w) /\ step_lock(w, StepKind(w)) # NoLock) => locks_held(w) = <<>>
       /\ (ReturnStep /\ best_provider_lock(scheduler.order) # NoLock)
             => scheduler_locks = <<>>]_vars

\* the place of a shared lock in the canonical order
LockRank(lock) ==
    CASE lock = "order_states" -> 1
      [] lock = "providers" -> 2
      [] lock = "failures" -> 3
      [] lock = "usages" -> 4
      [] lock = "channels" -> 5

\* C23: locks are taken in the canonical order Order Index, provider list,
\* failures, usages, Channel Pool: a thread that takes a lock holds only
\* locks that come before it in that order; in particular no thread takes
\* the Order Index lock while it holds the Channel Pool lock.
C23_CanonicalLockOrder ==
    [][/\ \A w \in WorkerIds :
             (StepOf(w) /\ step_lock(w, StepKind(w)) # NoLock) =>
                \A i \in 1 .. Len(locks_held(w)) :
                    LockRank(locks_held(w)[i]) < LockRank(step_lock(w, StepKind(w)))
       /\ (ReturnStep /\ best_provider_lock(scheduler.order) # NoLock) =>
             \A i \in 1 .. Len(scheduler_locks) :
                 LockRank(scheduler_locks[i])
                     < LockRank(best_provider_lock(scheduler.order))]_vars

\* C24: the Channel Pool lock is released before new_channel or
\* reuse_channel is called: a worker whose channel is being established
\* does not hold it, and every other live worker can take its next step
\* (unless a third thread holds a lock), so a slow establishment never makes
\* another worker wait.
C24_PoolLockFreeDuringEstablishment ==
    \A w \in WorkerIds :
        workers[w].pc = "establish" =>
            /\ \A i \in 1 .. Len(locks_held(w)) : locks_held(w)[i] # "channels"
            /\ \A w2 \in WorkerIds \ {w} :
                  (/\ Alive(w2)
                   /\ scheduler_locks = <<>>
                   /\ \A w3 \in WorkerIds \ {w, w2} : locks_held(w3) = <<>>)
                  => ENABLED WorkerStep(w2)

\* the place of a pc inside one pass of the loop and after it, counted down
Stage(pc) ==
    CASE pc = "select_failures" -> 14
      [] pc = "usage" -> 13
      [] pc = "channel" -> 12
      [] pc = "establish" -> 11
      [] pc \in {"serve", "handle_error"} -> 10
      [] pc = "pardon" -> 9
      [] pc = "remove" -> 8
      [] pc = "finish" -> 7
      [] pc = "insert" -> 6
      [] pc \in {"done", "panicked"} -> 5
      [] pc = "start" -> 2
      [] pc = "select" -> 1

\* a variant of the worker thread: the attempts it may still begin, then
\* the steps left in the current pass
Variant(self) ==
    (NUM_MAX_ATTEMPTS - self.num_attempt) * 20 + Stage(self.pc)

Min(a, b) == IF a < b THEN a ELSE b

\* C25: an Attempt Loop without custom provider that starts from a non-empty
\* working copy of n providers selects each provider at most once, makes at
\* most min(n, 100) attempts and terminates (every step of the worker
\* lowers a variant that never falls below 0); it stops after attempt 100
\* even when providers remain in the copy.
C25_LoopBounded ==
    /\ [](\A w \in WorkerIds :
            LET self == workers[w]
            IN  custom_provider(self.order) = NoProvider =>
                  /\ self.num_attempt <= Min(Len(providers), NUM_MAX_ATTEMPTS)
                  /\ Variant(self) >= 0
                  /\ Cardinality(Tried(w)) = Len(self.attempts)
                  /\ Tried(w) \subseteq Range(providers)
                  /\ Alive(w) => Tried(w) \cap Range(self.providers) = {}
                  /\ self.pc \in LoopEnded => Len(self.attempts) = self.num_attempt)
    /\ [][\A w \in WorkerIds :
            (StepOf(w) /\ custom_provider(workers[w].order) = NoProvider) =>
                /\ Variant(workers'[w]) < Variant(workers[w])
                /\ (ResultStep(w) /\ workers[w].num_attempt = NUM_MAX_ATTEMPTS)
                      => workers'[w].pc # "select"]_vars

\* the loop has made 100 attempts, none of which found the order, and has
\* ended although one provider is left in the working copy
C25_Witness ==
    /\ workers[1].pc = "pardon"
    /\ workers[1].num_attempt = NUM_MAX_ATTEMPTS
    /\ Len(workers[1].attempts) = NUM_MAX_ATTEMPTS
    /\ workers[1].result.kind = "Unavailable"
    /\ Len(providers) = NUM_MAX_ATTEMPTS + 1
    /\ workers[1].providers = <<ToString(NUM_MAX_ATTEMPTS + 1)>>

FatalKinds == {"ClientError", "UnexpectedInternalError"}

\* C26: a JobResult ClientError or UnexpectedInternalError ends the Attempt
\* Loop with that attempt: no further provider is selected, also when
\* providers remain in the working copy and last_chance is false; the
\* provider of the attempt is neither punished nor rewarded; the outcome of
\* the worker is Error.
C26_FatalResultEndsLoop ==
    /\ [](\A w \in WorkerIds :
            LET self == workers[w]
            IN  /\ \A i \in 1 .. Len(self.attempts) :
                      self.attempts[i][2] \in FatalKinds =>
                          /\ i = Len(self.attempts)
                          /\ self.pc \in LoopEnded
                          /\ self.result.kind = self.attempts[i][2]
                /\ (self.pc = "done" /\ self.result.kind \in FatalKinds) =>
                      self.job_outcome.kind = "Error")
    /\ [][\A w \in WorkerIds :
            (ResultStep(w) /\ StepKind(w) \in FatalKinds) =>
                /\ workers'[w].pc = "pardon"
                /\ workers'[w].providers = workers[w].providers
                /\ workers'[w].punished_providers = workers[w].punished_providers
                /\ provider_failures' = provider_failures]_vars

\* the first attempt, on A, ended in ClientError: B was never selected
\* although it remained and last_chance was false; A has no tally
C26_Witness ==
    /\ workers # <<>>
    /\ workers[1].pc = "done"
    /\ workers[1].attempts = <<<<"A", "ClientError">>>>
    /\ workers[1].messages =
          <<ProviderSelected("A"), ChannelEstablished("NewChannel")>>
    /\ ~workers[1].last_chance
    /\ workers[1].job_outcome.kind = "Error"
    /\ workers[1].job_outcome.failures = EmptyMap
    /\ Get(providers_in_use, "B") = 0

\* the step is a failed channel acquisition of worker w
ChannelFailStep(w) == EstablishStep(w) /\ workers'[w].pc = "handle_error"

C28_PutNeverOverwrites ==
    [][\A w \in WorkerIds :
          PutStep(w) => workers[w].provider \notin DOMAIN channels]_vars

\* the channels that are in the pool or in the hands of a worker, with
\* their owners
Owners(id) ==
    {<<"pool", p>> : p \in {q \in DOMAIN channels : channels[q].id = id}}
    \cup {<<"worker", w>> : w \in {v \in WorkerIds : workers[v].channel.id = id}}

ChannelIds ==
    {channels[p].id : p \in DOMAIN channels}
    \cup {workers[w].channel.id : w \in {v \in WorkerIds : workers[v].channel # NoChannel}}

\* C29: a channel is owned by at most one party at a time, the Channel Pool
\* (idle) or one worker: no channel is in the pool and in the hands of a
\* worker, or in the hands of two workers; the take from the pool is atomic,
\* it hands the channel of the provider to the worker and leaves no channel
\* for that provider in the pool.
C29_ChannelHasOneOwner ==
    /\ [](\A id \in ChannelIds : Cardinality(Owners(id)) = 1)
    /\ [][\A w \in WorkerIds :
            LET p == workers[w].provider
            IN  TakeStep(w) =>
                  /\ p \notin DOMAIN channels'
                  /\ \A q \in DOMAIN channels \ {p} :
                        q \in DOMAIN channels' /\ channels'[q] = channels[q]
                  /\ p \in DOMAIN channels => workers'[w].channel = channels[p]
                  /\ p \notin DOMAIN channels => workers'[w].channel = NoChannel]_vars

\* the worker of Z serves its order over the channel to A that the worker
\* of X had opened and put into the pool; the pool holds no channel for A
C29_Witness ==
    /\ workers[1].pc = "done" /\ workers[1].attempts = <<<<"A", "Complete">>>>
    /\ workers[2].pc = "serve" /\ workers[2].provider = "A"
    /\ workers[2].channel.id = <<1, 1>>
    /\ workers[2].channel.job_resources
    /\ channels = EmptyMap

RECURSIVE SelectedUpTo(_, _)
\* the number of ProviderSelected(p) events of the workers 1 .. n
SelectedUpTo(p, n) ==
    IF n = 0 THEN 0
    ELSE SelectedUpTo(p, n - 1) + Count(ProviderSelected(p), workers[n].messages)

\* the number of ProviderSelected(p) events so far
Selected(p) == SelectedUpTo(p, Len(workers))

\* the workers that have announced p for their current attempt and have not
\* counted the usage yet
Announcing(p) ==
    {w \in WorkerIds : workers[w].pc = "usage" /\ workers[w].provider = p}

\* C30 as stated: in every reachable state usages[p] equals the number of
\* ProviderSelected(p) events so far.
C30_UsagesEqualSelections ==
    \A p \in AllProviders : Get(providers_in_use, p) = Selected(p)

\* C30 as amended: usages[p] is incremented by exactly 1 in every attempt
\* that selects p, after the ProviderSelected(p) of that attempt is sent,
\* and is never decremented: in every reachable state usages[p] equals the
\* number of ProviderSelected(p) events so far minus the number of workers
\* that have sent ProviderSelected(p) for their current attempt and have not
\* yet incremented.
C30_UsagesFollowSelections ==
    /\ [](\A p \in AllProviders :
            Get(providers_in_use, p) = Selected(p) - Cardinality(Announcing(p)))
    /\ [][/\ \A p \in AllProviders :
               /\ Get(providers_in_use', p) >= Get(providers_in_use, p)
               /\ Get(providers_in_use', p) # Get(providers_in_use, p) =>
                     \E w \in WorkerIds : UsageStep(w) /\ workers[w].provider = p
          /\ \A w \in WorkerIds :
               UsageStep(w) =>
                  /\ workers[w].provider \in DOMAIN providers_in_use'
                  /\ providers_in_use'[workers[w].provider] =
                        Get(providers_in_use, workers[w].provider) + 1
                  /\ LastMessage(w) = ProviderSelected(workers[w].provider)]_vars

\* A has been selected by two attempts of different workers and B by one:
\* the counters are 2 and 1 once every increment is done
C30_Witness ==
    /\ Len(workers) = 2
    /\ Get(providers_in_use, "A") = 2 /\ Selected("A") = 2
    /\ Get(providers_in_use, "B") = 1 /\ Selected("B") = 1
    /\ \A w \in WorkerIds : workers[w].pc = "done"

\* pcs of a worker whose current attempt has a provider and no result yet
InAttempt == {"usage", "channel", "establish", "serve", "handle_error"}

\* C31: concurrent requests fan out: selecting a provider and counting its
\* usage are atomic with respect to other workers, so two workers that make
\* their first selection concurrently, from the same list of at least two
\* providers with equal failure tallies, do not both select the same
\* provider.
C31_ConcurrentSelectionsFanOut ==
    \A w1, w2 \in WorkerIds :
        (/\ w1 # w2
         /\ workers[w1].pc \in InAttempt /\ workers[w1].num_attempt = 1
         /\ workers[w2].pc \in InAttempt /\ workers[w2].num_attempt = 1
         /\ custom_provider(workers[w1].order) = NoProvider
         /\ custom_provider(workers[w2].order) = NoProvider
         /\ Len(providers) >= 2
         /\ \A p, q \in Range(providers) :
               Get(provider_failures, p) = Get(provider_failures, q))
        => workers[w1].provider # workers[w2].provider

\* the entry is a complete cache entry
CompleteEntry(entry) ==
    /\ entry.tag = "Cached"
    /\ entry.complete_size # None
    /\ entry.complete_size = entry.cached_size

\* C32: cache entries are stable: once the Index entry of an order is Cached
\* with complete_size = Some(cached_size), no later step of a try_schedule
\* call or of a worker removes that entry or replaces it by InProgress.
C32_CompleteEntriesStable ==
    [][\A order \in Orders :
          CompleteEntry(order_states[order]) =>
              order_states'[order].tag = "Cached"]_vars

\* the threads: the caller of try_schedule (0) and the workers
Threads == {0} \cup WorkerIds

\* the shared locks thread t holds
Held(t) ==
    IF t = 0 THEN Range(scheduler_locks) ELSE Range(locks_held(t))

\* the shared lock thread t is about to take, NoLock when its next step
\* takes none (it is inside a collaborator call, or has ended)
Wants(t) ==
    IF t = 0
    THEN IF scheduler.pc = "best_provider"
         THEN best_provider_lock(scheduler.order) ELSE NoLock
    ELSE step_lock(t, workers[t].result.kind)

\* thread t waits for a lock that thread u holds
WaitsFor(t, u) == Wants(t) # NoLock /\ Wants(t) \in Held(u)

\* C33: the core is deadlock-free: in no reachable state is there a set of
\* threads each of which waits for a shared lock (Order Index, provider
\* list, failures, usages, Channel Pool) that a thread of the set holds.
\* (The liveness tokens are only ever tried with try_lock, which does not
\* wait.)
C33_DeadlockFree ==
    \A S \in SUBSET Threads :
        S # {} => \E t \in S : \A u \in S : ~WaitsFor(t, u)

\* a chain of waiting threads without a cycle: a worker waits for the
\* Channel Pool, which a second worker holds in its Complete arm while it
\* waits for the Order Index, which the caller of try_schedule holds while
\* best_provider takes the free lock of the provider list
C33_Witness ==
    /\ scheduler.pc = "best_provider" /\ Wants(0) = "providers"
    /\ \E w1, w2 \in WorkerIds :
          /\ workers[w1].pc = "insert" /\ WaitsFor(w1, 0)
          /\ workers[w2].pc = "channel" /\ WaitsFor(w2, w1)

\* worker w has been spawned and its thread has ended
Ended(w) == w <= Len(workers) /\ ~Alive(w)

\* a collaborator call has panicked
SomePanic == \E w \in WorkerIds : workers[w].pc = "panicked"

\* C34: under fair scheduling, and unless a collaborator call panics, every
\* order that try_schedule marks InProgress eventually leaves that state
\* (its entry becomes absent or Cached); every worker eventually ends and,
\* unless a collaborator call of its own panicked, has produced an outcome.
C34_EveryOrderIsSettled ==
    /\ \A order \in Orders :
          (order_states[order].tag = "InProgress")
              ~> (order_states[order].tag # "InProgress" \/ SomePanic)
    /\ \A w \in 1 .. MaxWorkers :
          (w <= Len(workers))
              ~> (Ended(w) /\ (workers[w].pc = "done" =>
                                  workers[w].job_outcome # NoOutcome))

\* the order was marked InProgress, served and has left that state; its
\* worker has produced the outcome Success
C34_Witness ==
    /\ Len(workers) = 1 /\ workers[1].order = "X"
    /\ workers[1].pc = "done"
    /\ workers[1].job_outcome.kind = "Success"
    /\ workers[1].num_attempt = 2
    /\ order_states["X"].tag = "Cached"

====
